---------------------------- MODULE Spec2Model ----------------------------
(***************************************************************************)
(* A model of q_ambientcg_extract (src/src/main.rs).                       *)
(*                                                                         *)
(* Strings are sequences of one-character strings, so that length, prefix, *)
(* suffix and byte order are computed, not assumed.  Three specifications  *)
(* share the pure operators:                                               *)
(*   Spec     one run of process_zip over one extracted directory;         *)
(*   SpecFin  the directory-name computation of process_zip applied to a   *)
(*            family of directory names and thumbnail lengths;             *)
(*   SpecPar  main's parallel map of process_zip over several archives.    *)
(***************************************************************************)
EXTENDS Integers, Sequences, FiniteSets, TLC

VARIABLES
    mode,                      \* which specification the behaviour belongs to
    pc,                        \* position inside process_zip
    result,                    \* "running", "Ok", "Err", "Panic"
    error,                     \* the error or panic raised, "" if none
    extract_dir,               \* name of the extract directory (zip name without extension)
    dir_name,                  \* the directory's current name on disk
    disk,                      \* file name -> content, the files now in the directory
    unread,                    \* entries read_dir has not yielded yet
    to_delete,                 \* SmallVec of paths to remove
    file_paths,                \* SmallVec of accepted paths
    shortest_file_name_index,
    shortest_file_name_len,
    shortest_common_prefix,
    config_lines,
    multi_process,             \* postfix -> path of the buffered dependent files
    next_file,                 \* position of the loop over file_paths / to_delete
    decoded,                   \* file name -> image the decoder returned for it
    removed,                   \* paths fs::remove_file has removed, in order
    fin,                       \* SpecFin: the finalizer's input and output
    zips,                      \* SpecPar: the sorted archive listing
    task,                      \* SpecPar: per-archive task state
    dirs,                      \* SpecPar: directories now in the working directory
    main_pc,                   \* SpecPar: position of main
    reported                   \* SpecPar: the outcomes main printed

vars == <<mode, pc, result, error, extract_dir, dir_name, disk, unread, to_delete,
          file_paths, shortest_file_name_index, shortest_file_name_len,
          shortest_common_prefix, config_lines, multi_process, next_file,
          decoded, removed, fin, zips, task, dirs, main_pc, reported>>

zipVars == <<pc, result, error, extract_dir, dir_name, disk, unread, to_delete,
             file_paths, shortest_file_name_index, shortest_file_name_len,
             shortest_common_prefix, config_lines, multi_process, next_file,
             decoded, removed>>

parVars == <<zips, task, dirs, main_pc, reported>>

---------------------------------------------------------------------------
(* Bounds of the model *)

\* largest number of entries in an extracted directory
MaxFiles == 3

\* longest text after the last underscore of a directory name in SpecFin
MaxTailLen == 5

\* number of archives in the working directory in SpecPar
MaxZips == 3

---------------------------------------------------------------------------
(* Strings *)

\* Option and Result: a sequence holding the value, or the empty sequence
Some(x) == <<x>>

None == <<>>

IsSome(o) == o # <<>>

Unwrap(o) == o[1]

\* stand-in for usize::MAX: the largest integer the model checker represents
UsizeMax == 2147483647

Min(a, b) == IF a < b THEN a ELSE b

Range(s) == {s[i] : i \in 1..Len(s)}

Take(s, n) == SubSeq(s, 1, n)

Drop(s, n) == SubSeq(s, n + 1, Len(s))

ends_with(s, suf) ==
    /\ Len(suf) <= Len(s)
    /\ SubSeq(s, Len(s) - Len(suf) + 1, Len(s)) = suf

\* str::rfind of a one-character pattern: the last position holding c, 0 if none
rfind(s, c) ==
    LET hits == {i \in 1..Len(s) : s[i] = c}
    IN  IF hits = {} THEN 0 ELSE CHOOSE i \in hits : \A j \in hits : j <= i

\* str::trim_end_matches(['-', '_'])
trim_end_matches(s) ==
    LET keep == {i \in 1..Len(s) : s[i] \notin {"-", "_"}}
    IN  IF keep = {} THEN <<>>
        ELSE Take(s, CHOOSE i \in keep : \A j \in keep : j <= i)

UpperLetters ==
    <<"A","B","C","D","E","F","G","H","I","J","K","L","M",
      "N","O","P","Q","R","S","T","U","V","W","X","Y","Z">>

LowerLetters ==
    <<"a","b","c","d","e","f","g","h","i","j","k","l","m",
      "n","o","p","q","r","s","t","u","v","w","x","y","z">>

to_ascii_lowercase(s) ==
    [i \in 1..Len(s) |->
        IF \E k \in 1..26 : UpperLetters[k] = s[i]
        THEN LowerLetters[CHOOSE k \in 1..26 : UpperLetters[k] = s[i]]
        ELSE s[i]]

Digits == <<"0","1","2","3","4","5","6","7","8","9">>

is_ascii_digit(c) == \E k \in 1..10 : Digits[k] = c

DigitValue(c) == (CHOOSE k \in 1..10 : Digits[k] = c) - 1

\* str::parse::<u8>: an optional '+', then one or more decimal digits whose
\* value fits eight bits; -1 stands for Err.
RECURSIVE DecimalU8(_, _)
DecimalU8(s, acc) ==
    IF s = <<>> THEN acc
    ELSE IF ~is_ascii_digit(Head(s)) THEN -1
    ELSE LET v == acc * 10 + DigitValue(Head(s))
         IN  IF v > 255 THEN -1 ELSE DecimalU8(Tail(s), v)

parse_u8(s) ==
    IF s = <<>> THEN -1
    ELSE IF Head(s) \in {"+", "-"} /\ Len(s) = 1 THEN -1
    ELSE IF Head(s) = "+" THEN DecimalU8(Tail(s), 0)
    ELSE DecimalU8(s, 0)

\* the longest common leading substring of two strings (utils::common_prefix)
common_prefix(a, b) ==
    LET n == Min(Len(a), Len(b))
        same == {k \in 0..n : Take(a, k) = Take(b, k)}
    IN  Take(a, CHOOSE k \in same : \A j \in same : j <= k)

\* Path::extension: the text after the last '.', None when the name has no
\* '.' or only a leading one
extension(name) ==
    LET d == rfind(name, ".")
    IN  IF d <= 1 THEN None ELSE Some(Drop(name, d))

\* Path::file_stem: the name up to the last '.', the whole name when the name
\* has no '.' or only a leading one
file_stem(name) ==
    LET d == rfind(name, ".")
    IN  IF d <= 1 THEN name ELSE Take(name, d - 1)

png == <<"p","n","g">>

dot_png == <<".","p","n","g">>

correct_extension(name) == extension(name) = Some(png)

\* byte value of the characters the configuration lines are made of
Byte(c) ==
    CASE c = "\n" -> 10 [] c = " " -> 32 [] c = "\"" -> 34 [] c = "." -> 46
      [] c = "0" -> 48 [] c = "1" -> 49 [] c = "8" -> 56 [] c = "=" -> 61
      [] c = "G" -> 71 [] c = "L" -> 76 [] c = "O" -> 79 [] c = "_" -> 95
      [] c = "a" -> 97 [] c = "d" -> 100 [] c = "e" -> 101 [] c = "h" -> 104
      [] c = "i" -> 105 [] c = "l" -> 108 [] c = "m" -> 109 [] c = "n" -> 110
      [] c = "o" -> 111 [] c = "p" -> 112 [] c = "r" -> 114 [] c = "t" -> 116
      [] c = "u" -> 117

\* Ord for str: byte-wise lexicographic order
RECURSIVE str_lt(_, _)
str_lt(a, b) ==
    IF b = <<>> THEN FALSE
    ELSE IF a = <<>> THEN TRUE
    ELSE IF Byte(Head(a)) # Byte(Head(b)) THEN Byte(Head(a)) < Byte(Head(b))
    ELSE str_lt(Tail(a), Tail(b))

str_le(a, b) == a = b \/ str_lt(a, b)

\* slice::sort_unstable on strings (the result is the sorted order of the
\* elements whatever algorithm produces it)
RECURSIVE Insert(_, _)
Insert(x, s) ==
    IF s = <<>> THEN <<x>>
    ELSE IF str_le(x, Head(s)) THEN <<x>> \o s
    ELSE <<Head(s)>> \o Insert(x, Tail(s))

sort_unstable_m(s) == s

RECURSIVE sort_unstable(_)
sort_unstable(s) ==
    IF s = <<>> THEN <<>> ELSE Insert(Head(s), sort_unstable(Tail(s)))

\* [&str]::join("\n")
RECURSIVE join(_)
join(s) ==
    IF s = <<>> THEN <<>>
    ELSE IF Len(s) = 1 THEN Head(s)
    ELSE Head(s) \o <<"\n">> \o join(Tail(s))

\* str::lines
RECURSIVE lines(_)
lines(s) ==
    IF s = <<>> THEN <<>>
    ELSE LET nl == {i \in 1..Len(s) : s[i] = "\n"}
         IN  IF nl = {} THEN <<s>>
             ELSE LET i == CHOOSE i \in nl : \A j \in nl : i <= j
                  IN  <<Take(s, i - 1)>> \o lines(Drop(s, i))

\* the elements of a sequence with position i removed (SmallVec::remove)
RemoveAt(s, i) == SubSeq(s, 1, i - 1) \o SubSeq(s, i + 1, Len(s))

---------------------------------------------------------------------------
(* Images: the image crate's DynamicImage, as colour type, size and pixels *)
(* in row-major order; a pixel is the sequence of its channel samples.     *)

\* u16 -> u8 and u8 -> u16 sample conversion
to8(v) == (v + 128) \div 257

to16(v) == v * 257

\* the luma of an RGB pixel (Rec. 709 weights, integer arithmetic)
rgb_to_luma(p) == (2126 * p[1] + 7152 * p[2] + 722 * p[3]) \div 10000

MapPixels(img, color, F(_)) ==
    [color |-> color, width |-> img.width, height |-> img.height,
     pixels |-> [i \in 1..Len(img.pixels) |-> F(img.pixels[i])]]

Rgb8Pixel(color, p) ==
    CASE color = "L8"    -> <<p[1], p[1], p[1]>>
      [] color = "Rgb8"  -> p
      [] color = "Rgba8" -> <<p[1], p[2], p[3]>>
      [] color = "Rgb16" -> <<to8(p[1]), to8(p[2]), to8(p[3])>>

into_luma8(img) ==
    LET F(p) == CASE img.color = "L8"    -> p
                  [] img.color = "Rgb8"  -> <<rgb_to_luma(p)>>
                  [] img.color = "Rgba8" -> <<rgb_to_luma(p)>>
                  [] img.color = "Rgb16" -> <<to8(rgb_to_luma(p))>>
    IN  MapPixels(img, "L8", F)

into_rgb8(img) ==
    LET F(p) == Rgb8Pixel(img.color, p)
    IN  MapPixels(img, "Rgb8", F)

into_rgba8(img) ==
    LET F(p) == IF img.color = "Rgba8" THEN p
                ELSE Rgb8Pixel(img.color, p) \o <<255>>
    IN  MapPixels(img, "Rgba8", F)

into_rgb16(img) ==
    LET F(p) == IF img.color = "Rgb16" THEN p
                ELSE LET q == Rgb8Pixel(img.color, p)
                     IN  <<to16(q[1]), to16(q[2]), to16(q[3])>>
    IN  MapPixels(img, "Rgb16", F)

\* DynamicImage::invert
invert(img) ==
    LET top == IF img.color = "Rgb16" THEN 65535 ELSE 255
        F(p) == [k \in 1..Len(p) |->
                    IF img.color = "Rgba8" /\ k = 4 THEN p[k] ELSE top - p[k]]
    IN  MapPixels(img, img.color, F)

\* ImageBuffer::get_pixel(x, y), x and y counted from 0
get_pixel(img, x, y) == img.pixels[y * img.width + x + 1]

\* ImageBuffer::from_par_fn(width, height, f): the pixel at (x, y) is f(x, y)
from_par_fn(width, height, F(_, _)) ==
    [color |-> "Rgb8", width |-> width, height |-> height,
     pixels |-> [i \in 1..(width * height) |->
                    F((i - 1) % width, (i - 1) \div width)]]

\* the images a PNG of the archive may decode to
DiskImages ==
    { [color |-> "Rgb8",  width |-> 2, height |-> 1,
       pixels |-> <<<<10, 200, 30>>, <<250, 60, 90>>>>],
      [color |-> "L8",    width |-> 1, height |-> 1,
       pixels |-> <<<<77>>>>],
      [color |-> "Rgb16", width |-> 2, height |-> 1,
       pixels |-> <<<<65535, 25700, 0>>, <<514, 1000, 40000>>>>] }

\* what image::load returns for a file: an image, or None for an I/O or
\* codec error
Decodes == {Some(image) : image \in DiskImages} \cup {None}

---------------------------------------------------------------------------
(* Role Classifier *)

s_AmbientOcclusion == <<"A","m","b","i","e","n","t","O","c","c","l","u","s","i","o","n">>

s_Color == <<"C","o","l","o","r">>

s_Displacement == <<"D","i","s","p","l","a","c","e","m","e","n","t">>

s_NormalGL == <<"N","o","r","m","a","l","G","L">>

s_Metalness == <<"M","e","t","a","l","n","e","s","s">>

s_Roughness == <<"R","o","u","g","h","n","e","s","s">>

line_tile == <<"t","i","l","e"," ","="," ","t","r","u","e">>

line_ao == <<"a","o"," ","="," ","t","r","u","e">>

line_depth ==
    <<"d","e","p","t","h"," ","="," ","0",".","0","1","\n",
      "d","e","p","t","h","_","m","e","t","h","o","d"," ","="," ","8">>

line_normal == <<"n","o","r","m","a","l"," ","="," ","\"","O","p","e","n","G","L","\"">>

line_metal == <<"m","e","t","a","l"," ","="," ","1",".","0">>

line_rough == <<"r","o","u","g","h"," ","="," ","1",".","0">>

ImageBake_config(rename, config_multiline) ==
    [rename |-> rename, config_lines |-> Some(lines(config_multiline)),
     color |-> None, edited_image |-> None]

ImageBake_new(rename) ==
    [rename |-> rename, config_lines |-> None, color |-> None, edited_image |-> None]

Single(bake) == [method |-> "Single", bake |-> bake]

Dependent == [method |-> "Dependent"]

NoMatch == [method |-> "NoMatch"]

from_postfix_path(postfix) ==
    CASE postfix = s_AmbientOcclusion -> Single(ImageBake_config(<<"a","o">>, line_ao))
      [] postfix = s_Color -> Single(ImageBake_new(<<"c","o","l","o","r">>))
      [] postfix = s_Displacement ->
            Single(ImageBake_config(<<"d","e","p","t","h">>, line_depth))
      [] postfix = s_NormalGL ->
            Single([rename |-> <<"n","o","r","m","a","l">>,
                    config_lines |-> Some(<<line_normal>>),
                    color |-> Some("Rgb16"), edited_image |-> None])
      [] postfix = s_Metalness -> Dependent
      [] postfix = s_Roughness -> Dependent
      [] OTHER -> NoMatch

\* the closure fn_color_space_correction: the converted image, or None when
\* the image is kept as it is
fn_color_space_correction(bake, image) ==
    IF IsSome(bake.color)
    THEN LET enforced == Unwrap(bake.color)
         IN  IF image.color = enforced THEN None
             ELSE CASE enforced = "L8"    -> Some(into_luma8(image))
                    [] enforced = "Rgb8"  -> Some(into_rgb8(image))
                    [] enforced = "Rgba8" -> Some(into_rgba8(image))
                    [] enforced = "Rgb16" -> Some(into_rgb16(image))
                    [] OTHER -> None
    ELSE CASE image.color \in {"L8", "Rgb8", "Rgba8"} -> None
           [] image.color = "Rgb16" -> Some(into_rgba8(image))
           [] OTHER -> None


---------------------------------------------------------------------------
(* Directory Finalizer: the name computation of process_zip *)

\* the match on the text after the last underscore
is_resolution_token(bytes) ==
    IF Len(bytes) = 2 /\ bytes[2] = "K" /\ is_ascii_digit(bytes[1]) THEN TRUE
    ELSE IF Len(bytes) >= 1 /\ bytes[Len(bytes)] = "K"
         THEN parse_u8(Take(bytes, Len(bytes) - 1)) # -1
    ELSE FALSE

\* str::split_at(mid) panics when mid is past the end of the string
split_at_panics(s, mid) == mid > Len(s)

\* finished_folder, for a length that split_at accepts
finished_folder(name, len) ==
    LET truncated == Take(name, len)
        no_ext    == IF ends_with(truncated, dot_png)
                     THEN Take(truncated, Len(truncated) - 4) ELSE truncated
        trimmed   == trim_end_matches(no_ext)
        underscore_index == rfind(trimmed, "_")
        stripped  == IF underscore_index > 0
                        /\ is_resolution_token(Drop(trimmed, underscore_index))
                     THEN Take(trimmed, underscore_index - 1) ELSE trimmed
    IN  to_ascii_lowercase(trim_end_matches(stripped))

---------------------------------------------------------------------------
(* The extracted directory *)

Orig == [kind |-> "orig"]

SubDir == [kind |-> "dir"]

ImageFile(img) == [kind |-> "image", img |-> img]

TextFile(bytes) == [kind |-> "text", bytes |-> bytes]

Put(f, key, value) ==
    [k \in DOMAIN f \cup {key} |-> IF k = key THEN value ELSE f[k]]

Del(f, key) == [k \in DOMAIN f \ {key} |-> f[k]]

Empty == [k \in {} |-> k]

T_(postfix) == <<"T", "_">> \o postfix \o dot_png

n_ao == <<"a","o">> \o dot_png

combo_0rm_png == <<"c","o","m","b","o","_","0","r","m">> \o dot_png

specular_png == <<"s","p","e","c","u","l","a","r">> \o dot_png

material_toml == <<"m","a","t","e","r","i","a","l",".","t","o","m","l">>

n_sub == <<"s","u","b">>

\* "T_x.png": the preview image of the set, the shortest name of a vendor archive
n_preview == T_(<<"x">>)

\* the entries an archive may extract to; n_sub is a directory
Catalogue ==
    { n_preview, n_ao, combo_0rm_png, material_toml, n_sub,
      T_(s_AmbientOcclusion), T_(s_Color), T_(s_Displacement), T_(s_NormalGL),
      T_(s_Metalness), T_(s_Roughness) }

\* names of the extract directory (the archive's name without ".zip")
ExtractDirs ==
    { <<"T","_","x","_","2","K","-","P","N","G","-","a","m","b","i","e","n","t","c","g">>,
      <<"T","_","x">> }

---------------------------------------------------------------------------
(* process_zip, from the end of the extraction on *)

others == <<mode, fin, zips, task, dirs, main_pc, reported>>

Bail(kind) ==
    /\ pc' = "done"
    /\ result' = "Err"
    /\ error' = kind

Panics(kind) ==
    /\ pc' = "done"
    /\ result' = "Panic"
    /\ error' = kind

InitZip ==
    /\ mode = "zip"
    /\ pc = "scan"
    /\ result = "running"
    /\ error = ""
    /\ extract_dir \in ExtractDirs
    /\ dir_name = extract_dir
    /\ \E entries \in SUBSET Catalogue :
          /\ Cardinality(entries) <= MaxFiles
          /\ disk = [e \in entries |-> IF e = n_sub THEN SubDir ELSE Orig]
          /\ unread = entries
    /\ to_delete = <<>>
    /\ file_paths = <<>>
    /\ shortest_file_name_index = 0
    /\ shortest_file_name_len = UsizeMax
    /\ shortest_common_prefix = <<>>
    /\ config_lines = <<>>
    /\ multi_process = Empty
    /\ next_file = 0
    /\ decoded = Empty
    /\ removed = <<>>

ParIdle ==
    /\ zips = <<>>
    /\ task = <<>>
    /\ dirs = Empty
    /\ main_pc = "idle"
    /\ reported = <<>>

FinIdle == fin = [state |-> "idle"]

Init == InitZip /\ ParIdle /\ FinIdle

\* the comparison that moves the shortest file name
is_shorter_m(len, shortest) == len <= shortest

is_shorter(len, shortest) == len < shortest

\* one iteration of the loop over read_dir; the directory yields its
\* entries in any order
ScanEntry ==
    /\ mode = "zip"
    /\ pc = "scan"
    /\ \E file_path \in unread :
          /\ unread' = unread \ {file_path}
          /\ IF disk[file_path].kind = "dir"
             THEN /\ Bail("unexpected sub-directory")
                  /\ UNCHANGED <<to_delete, file_paths, shortest_file_name_index,
                                 shortest_file_name_len>>
             ELSE /\ UNCHANGED <<pc, result, error>>
                  /\ IF correct_extension(file_path)
                     THEN /\ IF is_shorter(Len(file_path), shortest_file_name_len)
                             THEN /\ shortest_file_name_index' = Len(file_paths)
                                  /\ shortest_file_name_len' = Len(file_path)
                             ELSE UNCHANGED <<shortest_file_name_index,
                                              shortest_file_name_len>>
                          /\ file_paths' = Append(file_paths, file_path)
                          /\ UNCHANGED to_delete
                     ELSE /\ to_delete' = Append(to_delete, file_path)
                          /\ UNCHANGED <<file_paths, shortest_file_name_index,
                                         shortest_file_name_len>>
    /\ UNCHANGED <<extract_dir, dir_name, disk, shortest_common_prefix, config_lines,
                   multi_process, next_file, decoded, removed>>
    /\ UNCHANGED others

\* the two emptiness checks and the removal of the thumbnail between them
RemoveThumbnail ==
    /\ mode = "zip"
    /\ pc = "scan"
    /\ unread = {}
    /\ IF file_paths = <<>>
       THEN /\ Bail("NoFilesToFilter")
            /\ UNCHANGED <<to_delete, file_paths>>
       ELSE /\ to_delete' = Append(to_delete, file_paths[shortest_file_name_index + 1])
            /\ file_paths' = RemoveAt(file_paths, shortest_file_name_index + 1)
            /\ IF file_paths' = <<>>
               THEN Bail("NoFilesToFilter")
               ELSE /\ pc' = "prefix"
                    /\ UNCHANGED <<result, error>>
    /\ UNCHANGED <<extract_dir, dir_name, disk, unread, shortest_file_name_index,
                   shortest_file_name_len, shortest_common_prefix, config_lines,
                   multi_process, next_file, decoded, removed>>
    /\ UNCHANGED others

\* the reduction of the loop over file_paths, started from the first name
RECURSIVE PrefixFold(_, _)
PrefixFold(prefix, names) ==
    IF names = <<>> THEN prefix
    ELSE PrefixFold(common_prefix(prefix, Head(names)), Tail(names))

\* the shared prefix, the roughness -> specular conversion and the start of
\* the configuration lines
ComputePrefix ==
    /\ mode = "zip"
    /\ pc = "prefix"
    /\ shortest_common_prefix' = PrefixFold(file_paths[1], file_paths)
    /\ LET roughness_file_name == shortest_common_prefix' \o s_Roughness
           found == {i \in 1..Len(file_paths) : file_paths[i] = roughness_file_name}
       IN  IF found # {}
           THEN LET index == CHOOSE i \in found : \A j \in found : i <= j
                    roughness_file_path == file_paths[index]
                IN  \E loaded \in Decodes :
                       /\ decoded' = Put(decoded, roughness_file_path, loaded)
                       /\ IF loaded = None
                          THEN /\ Bail("image")
                               /\ UNCHANGED <<disk, to_delete, file_paths, config_lines,
                                              multi_process, next_file>>
                          ELSE /\ disk' = Put(disk, specular_png,
                                              ImageFile(invert(Unwrap(loaded))))
                               /\ to_delete' = Append(to_delete, roughness_file_path)
                               /\ file_paths' = RemoveAt(file_paths, index)
                               /\ config_lines' = <<line_tile>>
                               /\ multi_process' = Empty
                               /\ next_file' = 1
                               /\ pc' = "classify"
                               /\ UNCHANGED <<result, error>>
           ELSE /\ config_lines' = <<line_tile>>
                /\ multi_process' = Empty
                /\ next_file' = 1
                /\ pc' = "classify"
                /\ UNCHANGED <<result, error, disk, to_delete, file_paths, decoded>>
    /\ UNCHANGED <<extract_dir, dir_name, unread, shortest_file_name_index,
                   shortest_file_name_len, removed>>
    /\ UNCHANGED others

\* one iteration of the loop that renames the remaining files; edited_image
\* is None in every ImageBake from_postfix_path builds, so the image is
\* always loaded from the file
Classify ==
    /\ mode = "zip"
    /\ pc = "classify"
    /\ next_file <= Len(file_paths)
    /\ LET file_path == file_paths[next_file]
           stem      == file_stem(file_path)
       IN  IF split_at_panics(stem, Len(shortest_common_prefix))
           THEN /\ Panics("split_at: prefix longer than stem")
                /\ UNCHANGED <<disk, to_delete, config_lines, multi_process,
                               next_file, decoded>>
           ELSE LET postfix == Drop(stem, Len(shortest_common_prefix))
                    processing_method == from_postfix_path(postfix)
                IN  \/ /\ processing_method.method = "Single"
                       /\ LET image_bake == processing_method.bake
                              new_path == image_bake.rename \o dot_png
                          IN  /\ config_lines' =
                                    IF IsSome(image_bake.config_lines)
                                    THEN config_lines \o Unwrap(image_bake.config_lines)
                                    ELSE config_lines
                              /\ \E loaded \in Decodes :
                                    /\ decoded' = Put(decoded, file_path, loaded)
                                    /\ IF loaded = None
                                       THEN /\ Bail("image")
                                            /\ UNCHANGED <<disk, to_delete, next_file>>
                                       ELSE LET image == Unwrap(loaded)
                                                corrected_image ==
                                                  fn_color_space_correction(image_bake, image)
                                            IN  /\ IF IsSome(corrected_image)
                                                   THEN /\ disk' = Put(disk, new_path,
                                                                ImageFile(Unwrap(corrected_image)))
                                                        /\ to_delete' = Append(to_delete, file_path)
                                                   ELSE /\ disk' = Put(Del(disk, file_path),
                                                                new_path, ImageFile(image))
                                                        /\ UNCHANGED to_delete
                                                /\ next_file' = next_file + 1
                                                /\ UNCHANGED <<pc, result, error>>
                       /\ UNCHANGED multi_process
                    \/ /\ processing_method.method = "Dependent"
                       /\ to_delete' = Append(to_delete, file_path)
                       /\ multi_process' = Put(multi_process, postfix, file_path)
                       /\ next_file' = next_file + 1
                       /\ UNCHANGED <<pc, result, error, disk, config_lines, decoded>>
                    \/ /\ processing_method.method = "NoMatch"
                       /\ to_delete' = Append(to_delete, file_path)
                       /\ next_file' = next_file + 1
                       /\ UNCHANGED <<pc, result, error, disk, config_lines,
                                      multi_process, decoded>>
    /\ UNCHANGED <<extract_dir, dir_name, unread, file_paths, shortest_file_name_index,
                   shortest_file_name_len, shortest_common_prefix, removed>>
    /\ UNCHANGED others


\* the loop over file_paths has consumed every path: the code after it runs
all_classified_m == next_file > 1

all_classified == next_file > Len(file_paths)

\* the pixel of the packed image for a roughness and a metalness sample
pack_pixel_m(roughness, metalness) == <<0, metalness, roughness>>

pack_pixel(roughness, metalness) == <<0, roughness, metalness>>

\* the size test of the metal material
size_mismatch(a, b) == a.width # b.width \/ a.height # b.height

\* the channel packer: the match on the two buffered dependent files
Pack ==
    /\ mode = "zip"
    /\ pc = "classify"
    /\ all_classified
    /\ LET get(key) == IF key \in DOMAIN multi_process
                       THEN Some(multi_process[key]) ELSE None
           metalness == get(s_Metalness)
           roughness == get(s_Roughness)
       IN  IF multi_process = Empty
           THEN /\ pc' = "manifest"
                /\ UNCHANGED <<result, error, disk, config_lines, decoded>>
           ELSE \/ /\ IsSome(metalness) /\ IsSome(roughness)
                   /\ config_lines' = config_lines \o <<line_metal, line_rough>>
                   /\ \E loaded_m \in Decodes, loaded_r \in Decodes :
                        IF loaded_m = None
                        THEN /\ decoded' = Put(decoded, Unwrap(metalness), loaded_m)
                             /\ Bail("image")
                             /\ UNCHANGED disk
                        ELSE
                        /\ decoded' = Put(Put(decoded, Unwrap(metalness), loaded_m),
                                          Unwrap(roughness), loaded_r)
                        /\ IF loaded_r = None
                           THEN /\ Bail("image")
                                /\ UNCHANGED disk
                           ELSE LET metalness_image == into_luma8(Unwrap(loaded_m))
                                    roughness_image == into_luma8(Unwrap(loaded_r))
                                    width  == metalness_image.width
                                    height == metalness_image.height
                                    px(x, y) == pack_pixel(get_pixel(roughness_image, x, y)[1],
                                                           get_pixel(metalness_image, x, y)[1])
                                IN  IF size_mismatch(metalness_image, roughness_image)
                                    THEN /\ Bail("bevy metal image requires matching image sizes")
                                         /\ UNCHANGED disk
                                    ELSE /\ disk' = Put(disk, combo_0rm_png,
                                                  ImageFile(from_par_fn(width, height, px)))
                                         /\ pc' = "manifest"
                                         /\ UNCHANGED <<result, error>>
                \/ /\ ~IsSome(metalness) /\ IsSome(roughness)
                   /\ config_lines' = Append(config_lines, line_rough)
                   /\ \E loaded_r \in Decodes :
                        /\ decoded' = Put(decoded, Unwrap(roughness), loaded_r)
                        /\ IF loaded_r = None
                           THEN /\ Bail("image")
                                /\ UNCHANGED disk
                           ELSE LET roughness_image == into_rgb8(Unwrap(loaded_r))
                                    zeroed(px) == <<0, px[2], 0>>
                                IN  /\ disk' = Put(disk, combo_0rm_png,
                                             ImageFile(MapPixels(roughness_image, "Rgb8", zeroed)))
                                    /\ pc' = "manifest"
                                    /\ UNCHANGED <<result, error>>
                \/ /\ IsSome(metalness) /\ ~IsSome(roughness)
                   /\ Bail("Metalness image without roughness map")
                   /\ UNCHANGED <<disk, config_lines, decoded>>
    /\ UNCHANGED <<extract_dir, dir_name, unread, to_delete, file_paths,
                   shortest_file_name_index, shortest_file_name_len,
                   shortest_common_prefix, multi_process, next_file, removed>>
    /\ UNCHANGED others

\* the bytes written to material.toml for the lines, already sorted
manifest_bytes(sorted_lines) == join(sorted_lines) \o <<"\n">>

\* the material config: sort, join, create and write
WriteManifest ==
    /\ mode = "zip"
    /\ pc = "manifest"
    /\ config_lines' = sort_unstable(config_lines)
    /\ disk' = Put(disk, material_toml, TextFile(manifest_bytes(config_lines')))
    /\ pc' = "delete"
    /\ next_file' = 1
    /\ UNCHANGED <<result, error, extract_dir, dir_name, unread, to_delete, file_paths,
                   shortest_file_name_index, shortest_file_name_len,
                   shortest_common_prefix, multi_process, decoded, removed>>
    /\ UNCHANGED others

\* one iteration of the loop over to_delete
RemoveFile ==
    /\ mode = "zip"
    /\ pc = "delete"
    /\ next_file <= Len(to_delete)
    /\ LET file_path == to_delete[next_file]
       IN  IF file_path \in DOMAIN disk
           THEN /\ disk' = Del(disk, file_path)
                /\ removed' = Append(removed, file_path)
                /\ next_file' = next_file + 1
                /\ UNCHANGED <<pc, result, error>>
           ELSE /\ Bail("remove_file")
                /\ UNCHANGED <<disk, removed, next_file>>
    /\ UNCHANGED <<extract_dir, dir_name, unread, to_delete, file_paths,
                   shortest_file_name_index, shortest_file_name_len,
                   shortest_common_prefix, config_lines, multi_process, decoded>>
    /\ UNCHANGED others

\* the new name of the folder and its rename
Finalize ==
    /\ mode = "zip"
    /\ pc = "delete"
    /\ next_file > Len(to_delete)
    /\ IF split_at_panics(extract_dir, shortest_file_name_len)
       THEN /\ Panics("split_at: thumbnail name longer than directory name")
            /\ UNCHANGED dir_name
       ELSE LET finished == finished_folder(extract_dir, shortest_file_name_len)
            IN  IF finished = <<>>
                THEN /\ Bail("rename")
                     /\ UNCHANGED dir_name
                ELSE /\ dir_name' = finished
                     /\ pc' = "done"
                     /\ result' = "Ok"
                     /\ UNCHANGED error
    /\ UNCHANGED <<extract_dir, disk, unread, to_delete, file_paths,
                   shortest_file_name_index, shortest_file_name_len,
                   shortest_common_prefix, config_lines, multi_process, next_file,
                   decoded, removed>>
    /\ UNCHANGED others

Next ==
    \/ ScanEntry
    \/ RemoveThumbnail
    \/ ComputePrefix
    \/ Classify
    \/ Pack
    \/ WriteManifest
    \/ RemoveFile
    \/ Finalize

Spec == Init /\ [][Next]_vars


---------------------------------------------------------------------------
(* Properties of process_zip (specification Spec) *)

\* errors that end a run before material.toml is written
EarlyErrors ==
    { "unexpected sub-directory", "NoFilesToFilter", "image",
      "bevy metal image requires matching image sizes",
      "Metalness image without roughness map",
      "split_at: prefix longer than stem" }

\* the run has passed the write of material.toml
ManifestWritten ==
    \/ pc = "delete"
    \/ pc = "done" /\ error \notin EarlyErrors

Accepted(name) == ends_with(name, dot_png) /\ Len(name) > 4

\* the first position, in iteration order, of a shortest name
ShortestFirst(paths) ==
    CHOOSE i \in 1..Len(paths) :
        /\ \A j \in 1..Len(paths) : Len(paths[i]) <= Len(paths[j])
        /\ \A j \in 1..(i - 1) : Len(paths[j]) > Len(paths[i])

NoFilesToFilterRaised == pc = "done" /\ result = "Err" /\ error = "NoFilesToFilter"

\* the step that ends the scan: the emptiness checks and the exclusion
C9_Exclusion ==
    (pc = "scan" /\ unread = {} /\ pc' # "scan") =>
        IF file_paths = <<>>
        THEN NoFilesToFilterRaised' /\ to_delete' = to_delete
        ELSE LET t == ShortestFirst(file_paths)
             IN  /\ to_delete' = Append(to_delete, file_paths[t])
                 /\ file_paths' = RemoveAt(file_paths, t)
                 /\ shortest_file_name_len = Len(file_paths[t])
                 /\ shortest_file_name_len' = Len(file_paths[t])
                 /\ IF Len(file_paths) = 1
                    THEN NoFilesToFilterRaised'
                    ELSE pc' = "prefix" /\ result' = "running"

\* during the scan the accepted files, in iteration order, are file_paths
\* and the others are scheduled for deletion
C9_Scan ==
    pc = "scan" =>
        /\ Range(file_paths) = {e \in DOMAIN disk \ unread : Accepted(e)}
        /\ Range(to_delete) = {e \in DOMAIN disk \ unread : ~Accepted(e)}

\* the excluded file: the first accepted name among the scheduled deletions
Thumbnail ==
    LET hits == {i \in 1..Len(to_delete) : Accepted(to_delete[i])}
    IN  to_delete[CHOOSE i \in hits : \A j \in hits : i <= j]

C9_NeverClassified ==
    pc \in {"prefix", "classify", "manifest", "delete"} =>
        /\ Thumbnail \notin Range(file_paths)
        /\ Thumbnail \notin DOMAIN decoded
        /\ \A k \in DOMAIN multi_process : multi_process[k] # Thumbnail
        /\ Len(Thumbnail) = shortest_file_name_len

\* C9: among the files with the accepted extension exactly one is excluded as
\* the thumbnail, the one with the shortest file name and, among several of
\* that length, the first in directory-iteration order; its length is the
\* recorded one, it is scheduled for deletion and never classified, and the
\* run fails with NoFilesToFilter when no accepted file exists before or
\* after the exclusion.
C9_Thumbnail ==
    /\ [](C9_Scan /\ C9_NeverClassified)
    /\ [][C9_Exclusion]_vars

\* a tie: the thumbnail was excluded and a file of the same length remains
C9_Witness ==
    /\ pc = "prefix"
    /\ \E i \in 1..Len(file_paths) : Len(file_paths[i]) = shortest_file_name_len


\* the packer has acted: it decoded a buffered file, queued one of its lines
\* or wrote its image
PackerStarted ==
    \/ \E k \in DOMAIN multi_process : multi_process[k] \in DOMAIN decoded
    \/ line_rough \in Range(config_lines)
    \/ line_metal \in Range(config_lines)
    \/ combo_0rm_png \in DOMAIN disk /\ disk[combo_0rm_png].kind = "image"

\* the loop over file_paths has handled the path: it is scheduled for
\* deletion or was renamed away
WasClassified(file_path) ==
    \/ file_path \in Range(to_delete)
    \/ file_path \notin DOMAIN disk

\* C10: no file of the pending delete set is removed before classification,
\* packing and the manifest write have all succeeded: until then, and in
\* every run that fails at or before the manifest write, nothing has been
\* removed and every scheduled file still exists; and the packer does not
\* start while a file is still to be classified.
C10_DeleteLast ==
    /\ ~ManifestWritten =>
          /\ removed = <<>>
          /\ \A i \in 1..Len(to_delete) : to_delete[i] \in DOMAIN disk
    /\ removed # <<>> =>
          /\ ManifestWritten
          /\ next_file > 1
    /\ pc \in {"scan", "prefix"} => ~PackerStarted
    /\ (pc = "classify" /\ next_file <= Len(file_paths)) => ~PackerStarted
    /\ PackerStarted => \A i \in 1..Len(file_paths) : WasClassified(file_paths[i])

\* a run that failed in the packer with files scheduled for deletion
C10_Witness ==
    /\ pc = "done"
    /\ error = "Metalness image without roughness map"
    /\ Len(to_delete) >= 3

\* the lines of material.toml in byte order, each with the role suffix that
\* contributes it ("" for the base line)
ManifestOrder ==
    << <<line_ao, {s_AmbientOcclusion}>>,
       <<SubSeq(line_depth, 1, 12), {s_Displacement}>>,
       <<SubSeq(line_depth, 14, 29), {s_Displacement}>>,
       <<line_metal, {s_Metalness}>>,
       <<line_normal, {s_NormalGL}>>,
       <<line_rough, {s_Roughness}>>,
       <<line_tile, {<<>>}>> >>

RECURSIVE ExpectedBytes(_, _)
ExpectedBytes(k, present) ==
    IF k > Len(ManifestOrder) THEN <<>>
    ELSE (IF ManifestOrder[k][2] \cap present # {}
          THEN ManifestOrder[k][1] \o <<"\n">> ELSE <<>>)
         \o ExpectedBytes(k + 1, present)

\* the role suffixes of the classified files, as a set
SuffixesPresent ==
    {Drop(file_stem(file_paths[i]), Len(shortest_common_prefix)) :
        i \in 1..Len(file_paths)}

\* C8: whatever order the directory yields the files in, material.toml holds
\* the base line, the lines of the independent roles present and the packer's
\* lines, each once, in byte order, each followed by a newline: a function of
\* the set of classified files alone.
C8_Manifest ==
    (pc = "delete" /\ next_file = 1) =>
        /\ material_toml \in DOMAIN disk
        /\ disk[material_toml] =
              TextFile(ExpectedBytes(1, SuffixesPresent \cup {<<>>}))

\* the manifest of a set yielded with the normal map before the displacement map
C8_Witness ==
    /\ pc = "delete"
    /\ next_file = 1
    /\ Len(config_lines) >= 4
    /\ \E i, j \in 1..Len(file_paths) :
          /\ i < j
          /\ file_paths[i] = T_(s_NormalGL)
          /\ file_paths[j] = T_(s_Displacement)


Buffered(role) == role \in DOMAIN multi_process

ComboWritten == combo_0rm_png \in DOMAIN disk /\ disk[combo_0rm_png].kind = "image"

ManifestOnDisk == material_toml \in DOMAIN disk /\ disk[material_toml].kind = "text"

Count(line) == Cardinality({i \in 1..Len(config_lines) : config_lines[i] = line})

\* the image the decoder returned for a buffered dependent file
DecodedOf(role) == Unwrap(decoded[multi_process[role]])

SameSize(a, b) == a.width = b.width /\ a.height = b.height

\* the packer has finished without an error
C2_Packed ==
    pc = "manifest" =>
        CASE ~Buffered(s_Metalness) /\ ~Buffered(s_Roughness) ->
                /\ ~ComboWritten
                /\ Count(line_rough) = 0
                /\ Count(line_metal) = 0
          [] ~Buffered(s_Metalness) /\ Buffered(s_Roughness) ->
                LET source == into_rgb8(DecodedOf(s_Roughness))
                    combo  == disk[combo_0rm_png].img
                IN  /\ ComboWritten
                    /\ combo.color = "Rgb8"
                    /\ SameSize(combo, source)
                    /\ Len(combo.pixels) = source.width * source.height
                    /\ \A i \in 1..Len(source.pixels) :
                          combo.pixels[i] = <<0, source.pixels[i][2], 0>>
                    /\ Count(line_rough) = 1
                    /\ Count(line_metal) = 0
          [] Buffered(s_Metalness) /\ Buffered(s_Roughness) ->
                LET metal == into_luma8(DecodedOf(s_Metalness))
                    rough == into_luma8(DecodedOf(s_Roughness))
                    combo == disk[combo_0rm_png].img
                IN  /\ ComboWritten
                    /\ SameSize(metal, rough)
                    /\ SameSize(combo, metal)
                    /\ Len(combo.pixels) = metal.width * metal.height
                    /\ \A i \in 1..Len(combo.pixels) :
                          combo.pixels[i] = <<0, rough.pixels[i][1], metal.pixels[i][1]>>
                    /\ Count(line_rough) = 1
                    /\ Count(line_metal) = 1
          [] Buffered(s_Metalness) /\ ~Buffered(s_Roughness) -> FALSE

\* the two errors of the packer
C2_Failed ==
    /\ (pc = "done" /\ error = "bevy metal image requires matching image sizes") =>
          /\ Buffered(s_Metalness) /\ Buffered(s_Roughness)
          /\ ~SameSize(DecodedOf(s_Metalness), DecodedOf(s_Roughness))
          /\ ~ComboWritten
          /\ ~ManifestOnDisk
    /\ (pc = "done" /\ error = "Metalness image without roughness map") =>
          /\ Buffered(s_Metalness) /\ ~Buffered(s_Roughness)
          /\ ~ComboWritten
          /\ ~ManifestOnDisk
    /\ (pc = "done" /\ result = "Err" /\ error \in EarlyErrors) => ~ComboWritten
    /\ ManifestWritten => (Buffered(s_Metalness) => Buffered(s_Roughness))

\* C2: the packer's outcome for the four combinations of buffered files,
\* the buffered files being decodable: neither gives no combo_0rm.png and no
\* line; Roughness alone gives the Roughness image with its first and third
\* channel zeroed and the line 'rough = 1.0'; both give, for equal sizes, an
\* image of that size with pixels (0, roughness, metalness) and the lines
\* 'metal = 1.0' and 'rough = 1.0', and for differing sizes an error and no
\* combo_0rm.png; Metalness alone gives an error, no combo_0rm.png and no
\* material.toml.
C2_Packer == C2_Packed /\ C2_Failed

\* both maps were packed from images of two pixels with distinct samples
C2_Witness ==
    /\ pc = "manifest"
    /\ Buffered(s_Metalness)
    /\ Buffered(s_Roughness)
    /\ ComboWritten
    /\ DecodedOf(s_Metalness) # DecodedOf(s_Roughness)

\* the kept outputs of a finished run: the renamed role images and the
\* packed image
KeptOutputs ==
    {from_postfix_path(p).bake.rename \o dot_png :
        p \in {q \in SuffixesPresent : from_postfix_path(q).method = "Single"}}
    \cup (IF Buffered(s_Roughness) THEN {combo_0rm_png} ELSE {})

\* C1: when process_zip succeeds the directory holds exactly the kept
\* outputs and material.toml; every other original file is in to_delete
\* exactly once and has been removed, and neither a kept output nor the
\* manifest is a member of to_delete.
C1_OnlyOutputsRemain ==
    result = "Ok" =>
        /\ DOMAIN disk = KeptOutputs \cup {material_toml}
        /\ disk[material_toml].kind = "text"
        /\ \A i, j \in 1..Len(to_delete) : to_delete[i] = to_delete[j] => i = j
        /\ \A i \in 1..Len(to_delete) :
              /\ to_delete[i] \notin DOMAIN disk
              /\ to_delete[i] \notin KeptOutputs \cup {material_toml}

\* the longest common leading substring of a set of strings
LongestCommonPrefix(strings) ==
    LET some == CHOOSE x \in strings : TRUE
        common == {k \in 0..Len(some) :
                      \A y \in strings : Len(y) >= k /\ Take(y, k) = Take(some, k)}
    IN  Take(some, CHOOSE k \in common : \A j \in common : j <= k)

Stems == {file_stem(file_paths[i]) : i \in 1..Len(file_paths)}

\* C3: for every non-empty set of files remaining after the thumbnail is
\* removed, the shared prefix is the longest common leading substring of
\* their stems, and every file reaches the Role Classifier with its stem
\* less that prefix.
C3_PrefixOfStems ==
    /\ (pc = "classify" /\ file_paths # <<>>) =>
          shortest_common_prefix = LongestCommonPrefix(Stems)
    /\ error # "split_at: prefix longer than stem"


---------------------------------------------------------------------------
(* SpecFin: the directory-name computation applied to a family of names *)

ZipIdle ==
    /\ pc = "idle"
    /\ result = "running"
    /\ error = ""
    /\ extract_dir = <<>>
    /\ dir_name = <<>>
    /\ disk = Empty
    /\ unread = {}
    /\ to_delete = <<>>
    /\ file_paths = <<>>
    /\ shortest_file_name_index = 0
    /\ shortest_file_name_len = UsizeMax
    /\ shortest_common_prefix = <<>>
    /\ config_lines = <<>>
    /\ multi_process = Empty
    /\ next_file = 0
    /\ decoded = Empty
    /\ removed = <<>>

\* the characters of the text after the last underscore
TailAlphabet == {"2", "5", "6", "+", "K"}

RECURSIVE Strings(_, _)
Strings(alphabet, n) ==
    IF n = 0 THEN {<<>>}
    ELSE LET shorter == Strings(alphabet, n - 1)
         IN  shorter \cup {Append(w, c) : w \in shorter, c \in alphabet}

\* what follows the resolution tag in an archive's name
NameEndings == {<<>>, <<"-">>, dot_png, <<"-","P","N","G">>}

\* the directory names: "Tex_", a tail, an ending
FinNames ==
    {<<"T","e","x","_">> \o tail \o ending :
        tail \in Strings(TailAlphabet, MaxTailLen), ending \in NameEndings}

\* the shortest name with the accepted extension ("x.png")
MinThumbLen == Len(dot_png) + 1

InitFin ==
    /\ mode = "fin"
    /\ ZipIdle
    /\ ParIdle
    /\ \E name \in FinNames :
         \E len \in MinThumbLen..(Len(name) + 1) :
            fin = [state |-> "init", name |-> name, len |-> len]

\* the new name of the folder and its rename, for the directory alone in
\* the working directory
FinalizeName ==
    /\ mode = "fin"
    /\ fin.state = "init"
    /\ fin' = IF split_at_panics(fin.name, fin.len)
              THEN [fin EXCEPT !.state = "panicked"]
              ELSE LET finished == finished_folder(fin.name, fin.len)
                   IN  IF finished = <<>>
                       THEN [fin EXCEPT !.state = "failed"]
                       ELSE [state |-> "renamed", name |-> fin.name,
                             len |-> fin.len, out |-> finished]
    /\ UNCHANGED <<mode, zipVars, parVars>>

NextFin == FinalizeName

SpecFin == InitFin /\ [][NextFin]_vars

\* the name after truncation, extension stripping and separator trimming
AfterTrim(name, len) ==
    LET truncated == Take(name, len)
    IN  trim_end_matches(IF ends_with(truncated, dot_png)
                         THEN Take(truncated, Len(truncated) - 4) ELSE truncated)

\* a resolution token: one or more ASCII digits, then 'K'
IsDigitsK(text) ==
    /\ Len(text) >= 2
    /\ text[Len(text)] = "K"
    /\ \A i \in 1..(Len(text) - 1) : is_ascii_digit(text[i])

\* C4: after truncation, extension stripping and separator trimming, a
\* trailing '_' followed by one digit and 'K' or by a decimal number of
\* several digits, of any magnitude, and 'K' is stripped; when the text after
\* the last underscore is not of that form nothing is stripped.
C4_ResolutionToken ==
    fin.state = "renamed" =>
        LET trimmed == AfterTrim(fin.name, fin.len)
            u == rfind(trimmed, "_")
        IN  fin.out = to_ascii_lowercase(trim_end_matches(
                IF u > 0 /\ IsDigitsK(Drop(trimmed, u))
                THEN Take(trimmed, u - 1) ELSE trimmed))

\* C5: for every directory name and every thumbnail filename length, also
\* one longer than the directory name, the finalizer completes and renames
\* the directory to the name its six steps give.
C5_FinalizerCompletes ==
    fin.state \notin {"idle", "init"} =>
        /\ fin.state = "renamed"
        /\ fin.out = finished_folder(fin.name, Min(fin.len, Len(fin.name)))


---------------------------------------------------------------------------
(* SpecPar: main's parallel map of process_zip over the archive listing *)

\* An archive: its name without ".zip", and what its content decides: how
\* the code of process_zip between the extraction and the folder rename ends
\* ("Ok", "Err", or "Panic" of the split_at on a file stem) and the length of
\* its thumbnail's file name.
Zip(name, body, thumb_len) == [name |-> name, body |-> body, thumb_len |-> thumb_len]

\* the archives of the working directory, in the order of sort_unstable
ZipCatalogue ==
    << Zip(<<"T","e","x">>, "Ok", 7),
       Zip(<<"T","e","x","_","2","K","-","P","N","G">>, "Ok", 7),
       Zip(<<"T","e","x","_","4","K","-","P","N","G">>, "Ok", 7),
       Zip(<<"W","o","o","d","_","2","K","-","P","N","G">>, "Err", 8),
       Zip(<<"W","o","o","d","_","4","K","-","P","N","G">>, "Panic", 8) >>

\* the subsequences of a sequence with at most n elements
RECURSIVE SubSeqs(_, _)
SubSeqs(s, n) ==
    IF s = <<>> \/ n = 0 THEN {<<>>}
    ELSE SubSeqs(Tail(s), n)
         \cup {<<Head(s)>> \o t : t \in SubSeqs(Tail(s), n - 1)}

InitPar ==
    /\ mode = "par"
    /\ ZipIdle
    /\ FinIdle
    /\ zips \in SubSeqs(ZipCatalogue, MaxZips) \ {<<>>}
    /\ task = [i \in 1..Len(zips) |-> [pc |-> "queued", result |-> "none"]]
    /\ dirs = Empty
    /\ main_pc = "par_iter"
    /\ reported = <<>>

Terminal == {"returned", "panicked", "skipped"}

SomePanic == \E i \in 1..Len(zips) : task[i].pc = "panicked"

Return(i, res) == task' = [task EXCEPT ![i] = [pc |-> "returned", result |-> res]]

Unwind(i) == task' = [task EXCEPT ![i] = [pc |-> "panicked", result |-> "none"]]

\* process_zip opens the archive and checks or creates the extract directory
CreateExtractDir(i) ==
    /\ mode = "par"
    /\ main_pc = "par_iter"
    /\ task[i].pc = "queued"
    /\ LET extract == zips[i].name
       IN  IF extract \in DOMAIN dirs
           THEN IF dirs[extract] = "files"
                THEN /\ Return(i, "Err")
                     /\ UNCHANGED dirs
                ELSE /\ task' = [task EXCEPT ![i].pc = "extract"]
                     /\ UNCHANGED dirs
           ELSE /\ dirs' = Put(dirs, extract, "empty")
                /\ task' = [task EXCEPT ![i].pc = "extract"]
    /\ UNCHANGED <<mode, zipVars, fin, zips, main_pc, reported>>

\* the archive is extracted into the directory
Extract(i) ==
    /\ mode = "par"
    /\ task[i].pc = "extract"
    /\ dirs' = Put(dirs, zips[i].name, "files")
    /\ task' = [task EXCEPT ![i].pc = "process"]
    /\ UNCHANGED <<mode, zipVars, fin, zips, main_pc, reported>>

\* the scan, classification, packing, manifest and deletions, all inside the
\* extract directory
ProcessFiles(i) ==
    /\ mode = "par"
    /\ task[i].pc = "process"
    /\ CASE zips[i].body = "Ok"    -> task' = [task EXCEPT ![i].pc = "rename"]
         [] zips[i].body = "Err"   -> Return(i, "Err")
         [] zips[i].body = "Panic" -> Unwind(i)
    /\ UNCHANGED <<mode, zipVars, fin, zips, dirs, main_pc, reported>>

\* the new name of the folder and fs::rename to it: renaming onto a
\* directory that holds files fails, onto an empty one replaces it
RenameFolder(i) ==
    /\ mode = "par"
    /\ task[i].pc = "rename"
    /\ LET extract == zips[i].name
       IN  IF split_at_panics(extract, zips[i].thumb_len)
           THEN /\ Unwind(i)
                /\ UNCHANGED dirs
           ELSE LET finished == finished_folder(extract, zips[i].thumb_len)
                IN  IF finished = <<>>
                       \/ (finished # extract /\ finished \in DOMAIN dirs
                           /\ dirs[finished] = "files")
                    THEN /\ Return(i, "Err")
                         /\ UNCHANGED dirs
                    ELSE /\ dirs' = Put(Del(dirs, extract), finished, "files")
                         /\ Return(i, "Ok")
    /\ UNCHANGED <<mode, zipVars, fin, zips, main_pc, reported>>

\* after a panic the items left in the panicking job's part of the listing
\* are dropped without being processed
SkipAfterPanic(i) ==
    /\ mode = "par"
    /\ main_pc = "par_iter"
    /\ task[i].pc = "queued"
    /\ SomePanic
    /\ task' = [task EXCEPT ![i].pc = "skipped"]
    /\ UNCHANGED <<mode, zipVars, fin, zips, dirs, main_pc, reported>>

\* collect returns once every job has ended; a panic of a job is resumed in
\* main, which then prints nothing
Collect ==
    /\ mode = "par"
    /\ main_pc = "par_iter"
    /\ \A i \in 1..Len(zips) : task[i].pc \in Terminal
    /\ main_pc' = IF SomePanic THEN "panicked" ELSE "report"
    /\ UNCHANGED <<mode, zipVars, fin, zips, task, dirs, reported>>

\* main prints the results in the order of the listing
Report ==
    /\ mode = "par"
    /\ main_pc = "report"
    /\ reported' = [i \in 1..Len(zips) |-> task[i].result]
    /\ main_pc' = "done"
    /\ UNCHANGED <<mode, zipVars, fin, zips, task, dirs>>

NextPar ==
    \/ \E i \in 1..Len(zips) : CreateExtractDir(i)
    \/ \E i \in 1..Len(zips) : Extract(i)
    \/ \E i \in 1..Len(zips) : ProcessFiles(i)
    \/ \E i \in 1..Len(zips) : RenameFolder(i)
    \/ \E i \in 1..Len(zips) : SkipAfterPanic(i)
    \/ Collect
    \/ Report

SpecPar == InitPar /\ [][NextPar]_vars

\* C6: however one archive's processing fails, by a returned error or by an
\* abort inside process_zip, every other archive is processed to its own
\* completion, and once all have ended main reports one outcome per archive,
\* the i-th outcome being that of the i-th archive of the listing.
C6_FailuresIsolated ==
    (Len(zips) >= 2 /\ main_pc \in {"done", "panicked"}) =>
        /\ main_pc = "done"
        /\ Len(reported) = Len(zips)
        /\ \A i \in 1..Len(zips) :
              /\ task[i].pc # "skipped"
              /\ task[i].pc = "returned" => reported[i] = task[i].result

\* what process_zip returns for an archive processed alone
AloneResult(zip) ==
    IF zip.body # "Ok" THEN zip.body
    ELSE IF split_at_panics(zip.name, zip.thumb_len) THEN "Panic"
    ELSE "Ok"

\* C7: two distinct archives touch disjoint paths (extract directory, its
\* files, final directory), so that under every interleaving each archive
\* ends as it does when processed alone and leaves its own directory.
C7_ArchivesIndependent ==
    \A i \in 1..Len(zips) :
        task[i].pc = "returned" =>
            /\ task[i].result = AloneResult(zips[i])
            /\ task[i].result = "Ok" =>
                  finished_folder(zips[i].name, zips[i].thumb_len) \in DOMAIN dirs


=============================================================================
